---------------------------- MODULE Spec2Model ----------------------------
(***************************************************************************)
(* File-Convertzz: a browser file converter.  The repository holds several *)
(* near-duplicate variants of the same app:                                *)
(*   "App"    src/src/App.jsx            radio selection, handleAction     *)
(*   "Shadcn" src/unnamed/part_000:1-158 checkbox selection, remove button *)
(*   "Part"   src/unnamed/part_000:159-  checkbox selection,               *)
(*                                       ConversionOptions                 *)
(*   "Radio"  src/tailwind.config.js:34- radio selection, handleAction stub*)
(* Strings are sequences of one-character strings; a JavaScript number     *)
(* returned by parseInt is <<n>>, and NaN is the empty sequence.           *)
(***************************************************************************)
EXTENDS Integers, Sequences, FiniteSets, Bags, TLC

VARIABLES
    \* The app (one variant of it runs).
    variant,        \* "App", "Shadcn", "Part" or "Radio"
    files,          \* useState([]): the file queue
    selected,       \* useState([]): the selected queue indices, 0-based
    isDropdownOpen, \* useState(false): the action menu of "App" and "Radio"
    jobs,           \* the bag of handler invocations that have not returned
    picked,         \* history: for each queued file, whether it is the one
                    \* the selection was last set to hold (it travels with
                    \* the file when the queue is renumbered)
    \* One exclude-pages operation, from the moment prompt() returns.
    impl,           \* which excludePdfPages runs: "App" or "Part"
    excludeSpec,    \* the string returned by prompt()
    totalPages,     \* pdfDoc.getPageCount() of the selected PDF
    pc,             \* position of the exclude-pages operation
    excluded,       \* the Set pagesToExclude / exclude after parsing
    outPages,       \* source page indices copied into the new document
    savedDoc,       \* saveAs was called with the new document
    err,            \* "none", or the kind of error the operation ended in
    \* One job that names its outputs, from its first library call on.
    nameImpl,       \* whose handler runs: "App" or "Part"
    nameOp,         \* "to_png", "to_jpeg" or "pdf_to_jpeg"
    fileName,       \* file.name of the job's input
    numPages,       \* pdf.numPages of the input of pdf_to_jpeg
    pageImages,     \* the array images of pdfToImages: {page, blob} records
    savedFiles,     \* the saveAs calls made, in order: name and content
    npc,            \* position of the job
    \* One call of mergePdfs.
    mergeInputs,    \* its argument: for each input file, its number of pages
    mergedPdf,      \* the pages added to the new document, in order
    mpc,            \* position of the call
    \* One drop zone.
    zone,           \* which one
    over,           \* its drag-over indicator (isDragging, isDraggingOver, over)
    counter,        \* counter.current of useDragCounter
    droppedFiles    \* useState([]) of the widget of HoverDropWidget.jsx

uvars == <<variant, files, selected, isDropdownOpen, jobs, picked>>

pvars == <<impl, excludeSpec, totalPages, pc, excluded, outPages, savedDoc, err>>

nvars == <<nameImpl, nameOp, fileName, numPages, pageImages, savedFiles, npc>>

mvars == <<mergeInputs, mergedPdf, mpc>>

dvars == <<zone, over, counter, droppedFiles>>

vars == <<variant, files, selected, isDropdownOpen, jobs, picked,
          impl, excludeSpec, totalPages, pc, excluded, outPages, savedDoc, err,
          nameImpl, nameOp, fileName, numPages, pageImages, savedFiles, npc,
          mergeInputs, mergedPdf, mpc, zone, over, counter, droppedFiles>>

(***************************************************************************)
(* Bounds of the model.                                                    *)
(***************************************************************************)
MaxLen == 5
MaxPages == 3
MaxFiles == 2
MaxBatch == 2
MaxJobs == 1
MaxFlight == 2
MaxSegs == 3
MaxInputs == 3
MaxDepth == 2

Digits == <<"0", "1", "2", "3", "4", "5", "6", "7", "8", "9">>
Alphabet == {"0", "1", "2", ",", "-", " ", "a"}
Strings == UNION {[1..n -> Alphabet] : n \in 0..MaxLen}

(***************************************************************************)
(* JavaScript string functions, as the engine computes them.               *)
(***************************************************************************)
isSpace(c) == c = " "

isDigit(c) == \E d \in 1..10 : Digits[d] = c

digitValue(c) == (CHOOSE d \in 1..10 : Digits[d] = c) - 1

\* String.prototype.trim: drop leading and trailing white space.
RECURSIVE trimStart(_)
trimStart(s) ==
    IF s # <<>> /\ isSpace(Head(s)) THEN trimStart(Tail(s)) ELSE s

RECURSIVE trimEnd(_)
trimEnd(s) ==
    IF s # <<>> /\ isSpace(s[Len(s)]) THEN trimEnd(SubSeq(s, 1, Len(s) - 1)) ELSE s

trim(s) == trimEnd(trimStart(s))

\* String.prototype.includes for a one-character needle.
includes(s, c) == \E i \in 1..Len(s) : s[i] = c

\* String.prototype.split for a one-character separator: "" splits to [""].
RECURSIVE split(_, _)
split(s, sep) ==
    IF ~includes(s, sep) THEN <<s>>
    ELSE LET k == CHOOSE i \in 1..Len(s) :
                      s[i] = sep /\ \A j \in 1..(i - 1) : s[j] # sep
         IN  <<SubSeq(s, 1, k - 1)>> \o split(SubSeq(s, k + 1, Len(s)), sep)

\* The longest prefix of s made of digits.
RECURSIVE digitPrefix(_)
digitPrefix(s) ==
    IF s # <<>> /\ isDigit(Head(s)) THEN <<Head(s)>> \o digitPrefix(Tail(s)) ELSE <<>>

RECURSIVE decimal(_)
decimal(ds) ==
    IF ds = <<>> THEN 0
    ELSE 10 * decimal(SubSeq(ds, 1, Len(ds) - 1)) + digitValue(ds[Len(ds)])

\* parseInt(s, 10): skip leading white space, read the digits that follow and
\* stop at the first other character; NaN when no digit was read.  (No part
\* handed to parseInt here holds a sign: a "-" makes the token a range, and
\* the range is split on "-".)
NaN == <<>>

isNaN(v) == v = NaN

parseInt(s) ==
    LET ds == digitPrefix(trimStart(s))
    IN  IF ds = <<>> THEN NaN ELSE <<decimal(ds)>>

\* Comparisons of JavaScript numbers: any comparison with NaN is false.
jsLe(a, b) == ~isNaN(a) /\ ~isNaN(b) /\ a[1] <= b[1]

jsGt(a, b) == ~isNaN(a) /\ ~isNaN(b) /\ a[1] > b[1]

jsGe(a, b) == ~isNaN(a) /\ ~isNaN(b) /\ a[1] >= b[1]

\* Math.min and Math.max: NaN when either argument is NaN.
MathMin(a, b) ==
    IF isNaN(a) \/ isNaN(b) THEN NaN ELSE IF a[1] <= b[1] THEN a ELSE b

MathMax(a, b) ==
    IF isNaN(a) \/ isNaN(b) THEN NaN ELSE IF a[1] >= b[1] THEN a ELSE b

\* for (let i = start; i <= end; i++): the values i takes.
forRange(start, end) ==
    IF jsLe(start, end) THEN start[1]..end[1] ELSE {}

(***************************************************************************)
(* excludePdfPages, src/src/App.jsx: the exclusion set and the new         *)
(* document.                                                               *)
(***************************************************************************)
\* partPagesApp with the upper bound of the page test forgotten.
partPagesApp_noUpperBound(rawPart, total) ==
    LET part == trim(rawPart)
    IN  IF includes(part, "-")
        THEN LET nums  == split(part, "-")
                 start == parseInt(nums[1])
                 end   == parseInt(nums[2])
             IN  {i - 1 : i \in {j \in forRange(start, end) : j > 0}}
        ELSE LET pageNum == parseInt(part)
             IN  IF jsGt(pageNum, <<0>>) THEN {pageNum[1] - 1} ELSE {}

\* The indices one comma-separated part adds to pagesToExclude.
partPagesApp(rawPart, total) ==
    LET part == trim(rawPart)
    IN  IF includes(part, "-")
        THEN LET nums  == split(part, "-")
                 start == parseInt(nums[1])
                 end   == parseInt(nums[2])
             IN  {i - 1 : i \in {j \in forRange(start, end) : j > 0 /\ j <= total}}
        ELSE LET pageNum == parseInt(part)
             IN  IF jsGt(pageNum, <<0>>) /\ jsLe(pageNum, <<total>>)
                 THEN {pageNum[1] - 1} ELSE {}

pagesToExclude(spec, total) ==
    LET parts == split(spec, ",")
    IN  UNION {partPagesApp(parts[k], total) : k \in 1..Len(parts)}

\* The pages of newPdfDoc: every page index not excluded, in document order.
RECURSIVE copyFrom(_, _, _)
copyFrom(i, total, excl) ==
    IF i >= total THEN <<>>
    ELSE (IF i \in excl THEN <<>> ELSE <<i>>) \o copyFrom(i + 1, total, excl)

\* The loop of newPdfDoc without its test !pagesToExclude.has(pageIndex).
newPdfDocPages_copiesAll(total, excl) == copyFrom(0, total, {})

newPdfDocPages(total, excl) == copyFrom(0, total, excl)

(***************************************************************************)
(* excludePdfPages, src/unnamed/part_000.                                  *)
(***************************************************************************)
partPagesPart(part, total) ==
    IF includes(part, "-")
    THEN LET nums  == split(part, "-")
             a     == parseInt(nums[1])
             b     == parseInt(nums[2])
             start == MathMin(a, b)
             end   == MathMax(a, b)
         IN  {i - 1 : i \in {j \in forRange(start, end) : j >= 1 /\ j <= total}}
    ELSE LET n == parseInt(part)
         IN  IF ~isNaN(n) /\ jsGe(n, <<1>>) /\ jsLe(n, <<total>>)
             THEN {n[1] - 1} ELSE {}

\* excludeSpec.split(',').map((s) => s.trim()).filter(Boolean)
specParts(spec) ==
    LET raw     == split(spec, ",")
        trimmed == [k \in 1..Len(raw) |-> trim(raw[k])]
    IN  SelectSeq(trimmed, LAMBDA t : t # <<>>)

exclude(spec, total) ==
    LET parts == specParts(spec)
    IN  UNION {partPagesPart(parts[k], total) : k \in 1..Len(parts)}

\* keep: for (let i = 0; i < total; i++) if (!exclude.has(i)) keep.push(i)
RECURSIVE keepFrom(_, _, _)
keepFrom(i, total, excl) ==
    IF i >= total THEN <<>>
    ELSE (IF i \in excl THEN <<>> ELSE <<i>>) \o keepFrom(i + 1, total, excl)

\* keep with the loop started at 1 instead of 0.
keep_fromOne(total, excl) == keepFrom(1, total, excl)

keep(total, excl) == keepFrom(0, total, excl)

(***************************************************************************)
(* The exclude-pages operation, from the moment prompt() returns.          *)
(***************************************************************************)
parseExclusions(which, spec, total) ==
    IF which = "App" THEN pagesToExclude(spec, total) ELSE exclude(spec, total)

builtPages(which, total, excl) ==
    IF which = "App" THEN newPdfDocPages(total, excl) ELSE keep(total, excl)

\* if (spec) ... / if (!spec) return: the empty string is falsy.
truthy(spec) == spec # <<>>

\* The app as it is before any file is added.
AppIdle ==
    /\ variant = "App"
    /\ files = <<>>
    /\ selected = <<>>
    /\ isDropdownOpen = FALSE
    /\ jobs = EmptyBag
    /\ picked = <<>>

\* No job that names outputs is running.
NamesIdle ==
    /\ nameImpl = "App"
    /\ nameOp = "to_png"
    /\ fileName = <<>>
    /\ numPages = 1
    /\ pageImages = <<>>
    /\ savedFiles = <<>>
    /\ npc = "idle"

\* mergePdfs is not running.
MergeIdle ==
    /\ mergeInputs = <<>>
    /\ mergedPdf = <<>>
    /\ mpc = "idle"

\* Nothing is dragged over the drop zone.
DragIdle ==
    /\ zone = "App"
    /\ over = FALSE
    /\ counter = 0
    /\ droppedFiles = <<>>

ParseInit ==
    /\ AppIdle
    /\ NamesIdle
    /\ MergeIdle
    /\ DragIdle
    /\ impl \in {"App", "Part"}
    /\ excludeSpec \in Strings
    /\ totalPages \in 1..MaxPages
    /\ pc = "prompt"
    /\ excluded = {}
    /\ outPages = <<>>
    /\ savedDoc = FALSE
    /\ err = "none"

\* prompt() returned a falsy string: the handler returns, nothing is parsed.
PromptEmpty ==
    /\ pc = "prompt"
    /\ ~truthy(excludeSpec)
    /\ pc' = "done"
    /\ UNCHANGED <<impl, excludeSpec, totalPages, excluded, outPages, savedDoc, err>>
    /\ UNCHANGED uvars
    /\ UNCHANGED nvars
    /\ UNCHANGED mvars
    /\ UNCHANGED dvars

\* file.arrayBuffer() or PDFDocument.load() rejects: nothing is parsed or saved.
LoadFails ==
    /\ pc = "prompt"
    /\ truthy(excludeSpec)
    /\ pc' = "done"
    /\ err' = "library"
    /\ UNCHANGED <<impl, excludeSpec, totalPages, excluded, outPages, savedDoc>>
    /\ UNCHANGED uvars
    /\ UNCHANGED nvars
    /\ UNCHANGED mvars
    /\ UNCHANGED dvars

\* excludePdfPages runs to its end and the handler saves what it returns.
ExcludePdfPages ==
    /\ pc = "prompt"
    /\ truthy(excludeSpec)
    /\ excluded' = parseExclusions(impl, excludeSpec, totalPages)
    /\ outPages' = builtPages(impl, totalPages, excluded')
    /\ savedDoc' = TRUE
    /\ pc' = "done"
    /\ UNCHANGED <<impl, excludeSpec, totalPages, err>>
    /\ UNCHANGED uvars
    /\ UNCHANGED nvars
    /\ UNCHANGED mvars
    /\ UNCHANGED dvars

ParseNext == PromptEmpty \/ LoadFails \/ ExcludePdfPages

SpecParse == ParseInit /\ [][ParseNext]_vars

(***************************************************************************)
(* The file queue and the selection.                                       *)
(***************************************************************************)
Variants == {"App", "Shadcn", "Part", "Radio"}

\* file.type as <<type, subtype>>: "image/png" is <<"image", "png">>.
MediaTypes ==
    {<<"image", "png">>, <<"image", "gif">>, <<"application", "pdf">>,
     <<"text", "plain">>}

QueueFiles == {[type |-> t] : t \in MediaTypes}

\* What the file picker or a drop can hand to onFiles.
Batches == UNION {[1..n -> QueueFiles] : n \in 0..MaxBatch}

\* Array.prototype.includes
arrIncludes(arr, x) == \E k \in 1..Len(arr) : arr[k] = x

\* arr.filter((_, i) => i !== idx), idx a 0-based index of arr.
removeAt(arr, idx) ==
    [k \in 1..(Len(arr) - 1) |-> IF k <= idx THEN arr[k] ELSE arr[k + 1]]

\* selected.filter(i => i !== idx).map(i => i > idx ? i - 1 : i)
filterAndRenumber(sel, idx) ==
    LET kept == SelectSeq(sel, LAMBDA i : i # idx)
    IN  [k \in 1..Len(kept) |-> IF kept[k] > idx THEN kept[k] - 1 ELSE kept[k]]

\* selected.filter(i => i !== idx), with a test that drops nothing.
filterOnly_keepsAll(sel, idx) == SelectSeq(sel, LAMBDA i : TRUE)

\* selected.filter(i => i !== idx)
filterOnly(sel, idx) == SelectSeq(sel, LAMBDA i : i # idx)

\* The selection after the remove button of row idx.
selectedAfterRemove(v, sel, idx) ==
    IF v = "Shadcn" THEN filterOnly(sel, idx) ELSE filterAndRenumber(sel, idx)

\* While alert() is open, and between a handler's last statement and its
\* return, no other event is handled.
blocked == \E job \in BagToSet(jobs) : job.st \in {"alert", "done", "failed"}

\* onFiles(newFiles), without the setSelected([0]) of App.jsx.
onFiles_neverSelects(newFiles) ==
    /\ ~blocked
    /\ Len(files) + Len(newFiles) <= MaxFiles
    /\ files' = files \o newFiles
    /\ selected' = selected
    /\ picked' = picked \o [k \in 1..Len(newFiles) |-> FALSE]
    /\ UNCHANGED <<variant, isDropdownOpen, jobs>>
    /\ UNCHANGED pvars
    /\ UNCHANGED nvars
    /\ UNCHANGED mvars

\* onFiles(newFiles), with the new files put in front of the queue.
onFiles_prepends(newFiles) ==
    /\ ~blocked
    /\ Len(files) + Len(newFiles) <= MaxFiles
    /\ files' = newFiles \o files
    /\ IF variant = "App" /\ Len(files) = 0 /\ Len(files') > 0
       THEN /\ selected' = <<0>>
            /\ picked' = [k \in 1..Len(files') |-> k = 1]
       ELSE /\ selected' = selected
            /\ picked' = picked \o [k \in 1..Len(newFiles) |-> FALSE]
    /\ UNCHANGED <<variant, isDropdownOpen, jobs>>
    /\ UNCHANGED pvars
    /\ UNCHANGED nvars
    /\ UNCHANGED mvars

\* onFiles(newFiles): append; App.jsx also selects the first file when the
\* queue was empty.
onFiles(newFiles) ==
    /\ ~blocked
    /\ Len(files) + Len(newFiles) <= MaxFiles
    /\ files' = files \o newFiles
    /\ IF variant = "App" /\ Len(files) = 0 /\ Len(files') > 0
       THEN /\ selected' = <<0>>
            /\ picked' = [k \in 1..Len(files') |-> k = 1]
       ELSE /\ selected' = selected
            /\ picked' = picked \o [k \in 1..Len(newFiles) |-> FALSE]
    /\ UNCHANGED <<variant, isDropdownOpen, jobs>>
    /\ UNCHANGED pvars
    /\ UNCHANGED nvars
    /\ UNCHANGED mvars

\* The file input: onChange={(e) => onFiles(Array.from(e.target.files))}
AddFiles ==
    /\ \E newFiles \in Batches : onFiles(newFiles)
    /\ UNCHANGED dvars

\* The radio button of row idx: onChange={() => setSelected([idx])}.
selectRadio(idx) ==
    /\ variant \in {"App", "Radio"}
    /\ ~blocked
    /\ idx \in 0..(Len(files) - 1)
    /\ ~arrIncludes(selected, idx)
    /\ selected' = <<idx>>
    /\ picked' = [k \in 1..Len(files) |-> k = idx + 1]
    /\ UNCHANGED <<variant, files, isDropdownOpen, jobs>>
    /\ UNCHANGED pvars
    /\ UNCHANGED nvars
    /\ UNCHANGED mvars
    /\ UNCHANGED dvars

SelectFile == \E idx \in 0..(MaxFiles - 1) : selectRadio(idx)

\* The checkbox of row idx:
\* setSelected((prev) => checked ? [...prev, idx] : prev.filter((i) => i !== idx))
toggleCheckbox(idx) ==
    /\ variant \in {"Shadcn", "Part"}
    /\ ~blocked
    /\ idx \in 0..(Len(files) - 1)
    /\ LET checked == ~arrIncludes(selected, idx)
       IN  /\ selected' = IF checked THEN Append(selected, idx)
                          ELSE filterOnly(selected, idx)
           /\ picked' = [picked EXCEPT ![idx + 1] = checked]
    /\ UNCHANGED <<variant, files, isDropdownOpen, jobs>>
    /\ UNCHANGED pvars
    /\ UNCHANGED nvars
    /\ UNCHANGED mvars
    /\ UNCHANGED dvars

ToggleFile == \E idx \in 0..(MaxFiles - 1) : toggleCheckbox(idx)

\* The remove button of row idx ("Part" has none).
removeFile(idx) ==
    /\ variant \in {"App", "Shadcn", "Radio"}
    /\ ~blocked
    /\ idx \in 0..(Len(files) - 1)
    /\ files' = removeAt(files, idx)
    /\ selected' = selectedAfterRemove(variant, selected, idx)
    /\ picked' = removeAt(picked, idx)
    /\ UNCHANGED <<variant, isDropdownOpen, jobs>>
    /\ UNCHANGED pvars
    /\ UNCHANGED nvars
    /\ UNCHANGED mvars
    /\ UNCHANGED dvars

RemoveFile == \E idx \in 0..(MaxFiles - 1) : removeFile(idx)

\* Clear All / Clear ("Radio" has none; in "Part" it sits in the header).
ClearAll ==
    /\ variant \in {"App", "Shadcn", "Part"}
    /\ ~blocked
    /\ variant = "Part" \/ Len(files) > 0
    /\ files' = <<>>
    /\ selected' = <<>>
    /\ picked' = <<>>
    /\ UNCHANGED <<variant, isDropdownOpen, jobs>>
    /\ UNCHANGED pvars
    /\ UNCHANGED nvars
    /\ UNCHANGED mvars
    /\ UNCHANGED dvars

\* "Select an Action...": setDropdownOpen(!isDropdownOpen)
ToggleDropdown ==
    /\ variant \in {"App", "Radio"}
    /\ ~blocked
    /\ Len(files) > 0
    /\ isDropdownOpen' = ~isDropdownOpen
    /\ UNCHANGED <<variant, files, selected, jobs, picked>>
    /\ UNCHANGED pvars
    /\ UNCHANGED nvars
    /\ UNCHANGED mvars
    /\ UNCHANGED dvars

(***************************************************************************)
(* The conversion handlers: handleAction of App.jsx and the buttons of     *)
(* ConversionOptions in part_000.  A handler invocation is a job: it is    *)
(* "alert" while its alert() is open, "running" while it awaits a library  *)
(* call, and "done" or "failed" at its end.  What a handler resolves its   *)
(* inputs to are files of the queue, each with the queue index it has; the *)
(* job keeps their number n and the number of saveAs calls made so far.    *)
(***************************************************************************)
Actions ==
    {"to_png", "to_jpeg", "images_to_pdf", "pdf_to_jpeg", "merge_pdfs",
     "exclude_pages"}

\* f.type.startsWith('image/'), with an equality test in its place.
isImage_pngOnly(f) == f.type = <<"image", "png">>

\* f.type.startsWith('image/')
isImage(f) == f.type[1] = "image"

\* f.type === 'application/pdf'
isPdf(f) == f.type = <<"application", "pdf">>

\* ['image/png', 'image/jpeg'].includes(f.type)
isPngOrJpeg(f) == f.type \in {<<"image", "png">>, <<"image", "jpeg">>}

\* The files of the queue, each with its index.
queued(fs) == [k \in 1..Len(fs) |-> [pos |-> k - 1, type |-> fs[k].type]]

\* selected.map(i => files[i]).filter(Boolean), taking every file of the
\* queue whatever is selected.
selFiles_wholeQueue(fs, sel) == queued(fs)

\* selected.map(i => files[i]).filter(Boolean)
selFiles(fs, sel) ==
    LET defined == SelectSeq(sel, LAMBDA i : i < Len(fs))
    IN  [k \in 1..Len(defined) |-> queued(fs)[defined[k] + 1]]

\* alert(msg) before anything is awaited.
rejected(action, msg) ==
    [op |-> action, st |-> "alert", msg |-> msg, inputs |-> <<>>]

\* The handler reaches its first await on a library call.
dispatched(action, inputs) ==
    [op |-> action, st |-> "running", msg |-> "", inputs |-> inputs]

\* The handler ends with no alert, no library call and nothing saved.
returned(action) ==
    [op |-> action, st |-> "done", msg |-> "", inputs |-> <<>>]

\* App.jsx: if (pdfFiles.length > 1), with the test off by one.
enoughToMerge_one(pdfFiles) == Len(pdfFiles) > 0

\* App.jsx: if (pdfFiles.length > 1)
enoughToMerge(pdfFiles) == Len(pdfFiles) > 1

\* part_000: if (pdfs.length !== 1), with the test of merge in its place.
notExactlyOne_atLeast(pdfs) == Len(pdfs) < 1

\* part_000: if (pdfs.length !== 1)
notExactlyOne(pdfs) == Len(pdfs) # 1

\* handleAction of App.jsx up to its first await; given: prompt() returned a
\* non-empty string.
appResolve(action, fs, sel, given) ==
    LET chosen == selFiles(fs, sel)
    IN  IF Len(chosen) = 0 THEN rejected(action, "Please select a file first!")
        ELSE LET file == chosen[1]
             IN  CASE action \in {"to_png", "to_jpeg"} ->
                        LET images == SelectSeq(chosen, isImage)
                        IN  IF Len(images) = 0 THEN returned(action)
                            ELSE dispatched(action, images)
                   [] action = "images_to_pdf" ->
                        LET imageFiles == SelectSeq(chosen, isImage)
                        IN  IF Len(imageFiles) > 0
                            THEN dispatched(action, imageFiles)
                            ELSE rejected(action,
                                     "Please select image files for this action.")
                   [] action = "pdf_to_jpeg" ->
                        IF isPdf(file) THEN dispatched(action, <<file>>)
                        ELSE rejected(action,
                                 "Please select a PDF file for this action.")
                   [] action = "merge_pdfs" ->
                        LET pdfFiles == SelectSeq(queued(fs), isPdf)
                        IN  IF enoughToMerge(pdfFiles) THEN dispatched(action, pdfFiles)
                            ELSE rejected(action,
                                     "Please add at least two PDF files to the queue for merging.")
                   [] action = "exclude_pages" ->
                        IF isPdf(file)
                        THEN IF given THEN dispatched(action, <<file>>)
                             ELSE returned(action)
                        ELSE rejected(action,
                                 "Please select a PDF file for this action.")

\* The buttons of ConversionOptions up to their first await: convertTo,
\* makePdf, pdfToJpegs, merge, excludePages, named by the action they perform.
partResolve(action, fs, sel, given) ==
    LET chosen == selFiles(fs, sel)
        images == SelectSeq(chosen, isPngOrJpeg)
        pdfs   == SelectSeq(chosen, isPdf)
    IN  CASE action \in {"to_png", "to_jpeg"} ->
               IF Len(images) = 0
               THEN rejected(action, "Select PNG or JPEG images to convert")
               ELSE dispatched(action, images)
          [] action = "images_to_pdf" ->
               IF Len(images) = 0
               THEN rejected(action, "Select images to convert to PDF")
               ELSE dispatched(action, images)
          [] action = "pdf_to_jpeg" ->
               IF notExactlyOne(pdfs)
               THEN rejected(action, "Select exactly one PDF to convert to images")
               ELSE dispatched(action, <<pdfs[1]>>)
          [] action = "merge_pdfs" ->
               IF Len(pdfs) < 2
               THEN rejected(action, "Select at least two PDFs to merge")
               ELSE dispatched(action, pdfs)
          [] action = "exclude_pages" ->
               IF notExactlyOne(pdfs)
               THEN rejected(action, "Select exactly one PDF to split/exclude pages")
               ELSE IF given THEN dispatched(action, <<pdfs[1]>>)
                    ELSE returned(action)

\* The job of a handler invocation that resolved to r.
started(r) ==
    [op |-> r.op, st |-> r.st, msg |-> r.msg, n |-> Len(r.inputs), saved |-> 0]

\* handleAction(action), with the selection reset when the handler starts.
handleAction_resetsSelection(action) ==
    /\ variant = "App"
    /\ ~blocked
    /\ Len(files) > 0
    /\ isDropdownOpen
    /\ \E given \in BOOLEAN :
           jobs' = jobs (+) SetToBag({started(appResolve(action, files, selected, given))})
    /\ isDropdownOpen' = FALSE
    /\ selected' = <<>>
    /\ UNCHANGED <<variant, files, picked>>
    /\ UNCHANGED pvars
    /\ UNCHANGED nvars
    /\ UNCHANGED mvars
    /\ UNCHANGED dvars

\* A menu entry of App.jsx: handleAction(action).
handleAction(action) ==
    /\ variant = "App"
    /\ ~blocked
    /\ Len(files) > 0
    /\ isDropdownOpen
    /\ \E given \in BOOLEAN :
           jobs' = jobs (+) SetToBag({started(appResolve(action, files, selected, given))})
    /\ isDropdownOpen' = FALSE
    /\ UNCHANGED <<variant, files, selected, picked>>
    /\ UNCHANGED pvars
    /\ UNCHANGED nvars
    /\ UNCHANGED mvars
    /\ UNCHANGED dvars

HandleAction ==
    /\ BagCardinality(jobs) < MaxJobs
    /\ \E action \in Actions : handleAction(action)

\* A menu entry clicked while earlier invocations of handleAction may still
\* await: the menu button and its entries are never disabled.
HandleActionInFlight ==
    /\ BagCardinality(jobs) < MaxFlight
    /\ \E action \in Actions : handleAction(action)

\* A button of ConversionOptions in part_000.
conversionOption(action) ==
    /\ variant = "Part"
    /\ ~blocked
    /\ Len(files) > 0
    /\ \E given \in BOOLEAN :
           jobs' = jobs (+) SetToBag({started(partResolve(action, files, selected, given))})
    /\ UNCHANGED <<variant, files, selected, isDropdownOpen, picked>>
    /\ UNCHANGED pvars
    /\ UNCHANGED nvars
    /\ UNCHANGED mvars
    /\ UNCHANGED dvars

ConversionOption ==
    /\ BagCardinality(jobs) < MaxJobs
    /\ \E action \in Actions : conversionOption(action)

\* handleAction of tailwind.config.js: setDropdownOpen(false), the rest elided.
HandleActionStub ==
    /\ variant = "Radio"
    /\ ~blocked
    /\ Len(files) > 0
    /\ isDropdownOpen
    /\ isDropdownOpen' = FALSE
    /\ UNCHANGED <<variant, files, selected, jobs, picked>>
    /\ UNCHANGED pvars
    /\ UNCHANGED nvars
    /\ UNCHANGED mvars
    /\ UNCHANGED dvars

\* The awaited library call of a job resolves and the handler goes on to its
\* next await or to its end, saving what it has: one file per image in the
\* loop of to_png and to_jpeg, one file per page for pdf_to_jpeg, one file
\* otherwise.
afterResolve(job, pages) ==
    IF job.op \in {"to_png", "to_jpeg"}
    THEN IF job.saved + 1 = job.n
         THEN [job EXCEPT !.saved = job.saved + 1, !.st = "done"]
         ELSE [job EXCEPT !.saved = job.saved + 1]
    ELSE IF job.op = "pdf_to_jpeg"
         THEN [job EXCEPT !.saved = pages, !.st = "done"]
         ELSE [job EXCEPT !.saved = 1, !.st = "done"]

LibraryResolves ==
    /\ ~blocked
    /\ \E job \in BagToSet(jobs) :
         /\ job.st = "running"
         /\ \E pages \in 1..MaxPages :
                jobs' = (jobs (-) SetToBag({job}))
                            (+) SetToBag({afterResolve(job, pages)})
    /\ UNCHANGED <<variant, files, selected, isDropdownOpen, picked>>
    /\ UNCHANGED pvars
    /\ UNCHANGED nvars
    /\ UNCHANGED mvars
    /\ UNCHANGED dvars

\* The awaited library call of a job rejects: App.jsx catches and alerts,
\* part_000 has no catch.
afterReject(v, job) ==
    IF v = "App"
    THEN [job EXCEPT !.st = "alert", !.msg = "An error occurred"]
    ELSE [job EXCEPT !.st = "failed"]

LibraryRejects ==
    /\ ~blocked
    /\ \E job \in BagToSet(jobs) :
         /\ job.st = "running"
         /\ jobs' = (jobs (-) SetToBag({job}))
                        (+) SetToBag({afterReject(variant, job)})
    /\ UNCHANGED <<variant, files, selected, isDropdownOpen, picked>>
    /\ UNCHANGED pvars
    /\ UNCHANGED nvars
    /\ UNCHANGED mvars
    /\ UNCHANGED dvars

\* The user closes the alert, or the handler returns: the job is over.
JobEnds ==
    /\ \E job \in BagToSet(jobs) :
         /\ job.st \in {"alert", "done", "failed"}
         /\ jobs' = jobs (-) SetToBag({job})
    /\ UNCHANGED <<variant, files, selected, isDropdownOpen, picked>>
    /\ UNCHANGED pvars
    /\ UNCHANGED nvars
    /\ UNCHANGED mvars
    /\ UNCHANGED dvars

(***************************************************************************)
(* The app: one variant, from its first render.                            *)
(***************************************************************************)
ParseIdle ==
    /\ impl = "App"
    /\ excludeSpec = <<>>
    /\ totalPages = 1
    /\ pc = "idle"
    /\ excluded = {}
    /\ outPages = <<>>
    /\ savedDoc = FALSE
    /\ err = "none"

Init ==
    /\ variant \in Variants
    /\ files = <<>>
    /\ selected = <<>>
    /\ isDropdownOpen = FALSE
    /\ jobs = EmptyBag
    /\ picked = <<>>
    /\ ParseIdle
    /\ NamesIdle
    /\ MergeIdle
    /\ DragIdle

Next ==
    \/ AddFiles
    \/ SelectFile
    \/ ToggleFile
    \/ RemoveFile
    \/ ClearAll
    \/ ToggleDropdown
    \/ HandleAction
    \/ ConversionOption
    \/ HandleActionStub
    \/ LibraryResolves
    \/ LibraryRejects
    \/ JobEnds

Spec == Init /\ [][Next]_vars

(***************************************************************************)
(* App.jsx alone, with handleAction invoked again while earlier            *)
(* invocations are suspended on a library call.                            *)
(***************************************************************************)
FlightInit ==
    /\ AppIdle
    /\ ParseIdle
    /\ NamesIdle
    /\ MergeIdle
    /\ DragIdle

FlightNext ==
    \/ AddFiles
    \/ SelectFile
    \/ RemoveFile
    \/ ClearAll
    \/ ToggleDropdown
    \/ HandleActionInFlight
    \/ LibraryResolves
    \/ LibraryRejects
    \/ JobEnds

SpecFlight == FlightInit /\ [][FlightNext]_vars

(***************************************************************************)
(* One job that names what it saves: the format conversion of an image     *)
(* (handleAction of App.jsx, convertTo of part_000) or pdfToImages and the *)
(* saving of its pages.  File names are sequences of characters.           *)
(***************************************************************************)
dotPdf == <<".", "p", "d", "f">>
dotPng == <<".", "p", "n", "g">>
dotJpg == <<".", "j", "p", "g">>
dotJpeg == <<".", "j", "p", "e", "g">>

\* The pieces the file names of the model are made of.
NamePieces == {<<"a">>, <<".">>, dotPdf, dotPng, <<".", "J", "P", "G">>}

RECURSIVE concat(_)
concat(pieces) ==
    IF pieces = <<>> THEN <<>> ELSE Head(pieces) \o concat(Tail(pieces))

FileNames == {concat(ps) : ps \in UNION {[1..n -> NamePieces] : n \in 1..MaxSegs}}

\* String.prototype.toLowerCase on the characters of the model.
toLowerCase(c) ==
    CASE c = "J" -> "j" [] c = "P" -> "p" [] c = "G" -> "g" [] OTHER -> c

\* s has pat at position i (1-based).
occursAt(s, pat, i) ==
    /\ i + Len(pat) - 1 <= Len(s)
    /\ \A k \in 1..Len(pat) : s[i + k - 1] = pat[k]

\* name.replace(pat, by) with a string pattern: the first occurrence only.
replaceString(name, pat, by) ==
    LET at == {i \in 1..Len(name) : occursAt(name, pat, i)}
    IN  IF at = {} THEN name
        ELSE LET i == CHOOSE j \in at : \A k \in at : j <= k
             IN  SubSeq(name, 1, i - 1) \o by \o SubSeq(name, i + Len(pat), Len(name))

\* name.replace(/\.[^/.]+$/, by): a dot followed, up to the end of the name,
\* by one or more characters that are neither "/" nor ".".
replaceLastExtension(name, by) ==
    LET at == {i \in 1..(Len(name) - 1) :
                  /\ name[i] = "."
                  /\ \A k \in (i + 1)..Len(name) : name[k] \notin {"/", "."}}
    IN  IF at = {} THEN name
        ELSE LET i == CHOOSE j \in at : \A k \in at : j <= k
             IN  SubSeq(name, 1, i - 1) \o by

\* The name ends with suffix, letter case ignored.
endsWithIgnoringCase(name, suffix) ==
    /\ Len(suffix) <= Len(name)
    /\ \A k \in 1..Len(suffix) :
           toLowerCase(name[Len(name) - Len(suffix) + k]) = suffix[k]

\* name.replace(/\.(png|jpg|jpeg)$/i, by)
replaceImageExtension(name, by) ==
    LET found == {suffix \in {dotPng, dotJpg, dotJpeg} :
                     endsWithIgnoringCase(name, suffix)}
    IN  IF found = {} THEN name
        ELSE LET suffix == CHOOSE x \in found : TRUE
             IN  SubSeq(name, 1, Len(name) - Len(suffix)) \o by

\* The decimal digits of n, as a template literal prints a number.
RECURSIVE numberToString(_)
numberToString(n) ==
    IF n < 10 THEN <<Digits[n + 1]>>
    ELSE numberToString(n \div 10) \o <<Digits[(n % 10) + 1]>>

\* action === 'to_png' ? '.png' : '.jpg'
newExtension(action) == IF action = "to_png" THEN dotPng ELSE dotJpg

\* App.jsx: f.name.replace(/\.[^/.]+$/, "") + newExtension
newName(name, action) == replaceLastExtension(name, <<>>) \o newExtension(action)

\* part_000: img.name.replace(/\.(png|jpg|jpeg)$/i, target === 'image/png' ? '.png' : '.jpg')
convertToName(name, action) == replaceImageExtension(name, newExtension(action))

convertedName(which, name, action) ==
    IF which = "App" THEN newName(name, action) ELSE convertToName(name, action)

\* App.jsx: `${file.name.replace('.pdf', '')}-page-${page}.jpg`
\* part_000: `page-${page}.jpg`
pageFileName(which, name, page) ==
    IF which = "App"
    THEN replaceString(name, dotPdf, <<>>) \o <<"-", "p", "a", "g", "e", "-">>
             \o numberToString(page) \o dotJpg
    ELSE <<"p", "a", "g", "e", "-">> \o numberToString(page) \o dotJpg

NamesInit ==
    /\ AppIdle
    /\ ParseIdle
    /\ MergeIdle
    /\ DragIdle
    /\ nameImpl \in {"App", "Part"}
    /\ nameOp \in {"to_png", "to_jpeg", "pdf_to_jpeg"}
    /\ fileName \in FileNames
    /\ numPages \in 1..MaxPages
    /\ nameOp # "pdf_to_jpeg" => numPages = 1
    /\ pageImages = <<>>
    /\ savedFiles = <<>>
    /\ npc = "start"

\* The loop body of to_png / to_jpeg for one image: dataURLFromImage
\* resolves and the result is saved under its new name.
SaveConverted ==
    /\ npc = "start"
    /\ nameOp \in {"to_png", "to_jpeg"}
    /\ savedFiles' = <<[name |-> convertedName(nameImpl, fileName, nameOp), content |-> 0]>>
    /\ npc' = "done"
    /\ UNCHANGED <<nameImpl, nameOp, fileName, numPages, pageImages>>
    /\ UNCHANGED uvars
    /\ UNCHANGED pvars
    /\ UNCHANGED mvars
    /\ UNCHANGED dvars

\* pdfToImages: getDocument resolves, the loop over the pages begins.
GetDocument ==
    /\ npc = "start"
    /\ nameOp = "pdf_to_jpeg"
    /\ npc' = "pages"
    /\ UNCHANGED <<nameImpl, nameOp, fileName, numPages, pageImages, savedFiles>>
    /\ UNCHANGED uvars
    /\ UNCHANGED pvars
    /\ UNCHANGED mvars
    /\ UNCHANGED dvars

\* One turn of for (let i = 1; i <= pdf.numPages; i++): getPage(i), render,
\* toBlob, images.push({ page: i, blob }).  The blob of page i is i.
RenderPage ==
    /\ npc = "pages"
    /\ Len(pageImages) < numPages
    /\ LET i == Len(pageImages) + 1
       IN  pageImages' = Append(pageImages, [page |-> i, blob |-> i])
    /\ UNCHANGED <<nameImpl, nameOp, fileName, numPages, savedFiles, npc>>
    /\ UNCHANGED uvars
    /\ UNCHANGED pvars
    /\ UNCHANGED mvars
    /\ UNCHANGED dvars

\* A library call of pdfToImages rejects: nothing is saved.
RenderFails ==
    /\ npc = "pages"
    /\ Len(pageImages) < numPages
    /\ npc' = "failed"
    /\ UNCHANGED <<nameImpl, nameOp, fileName, numPages, pageImages, savedFiles>>
    /\ UNCHANGED uvars
    /\ UNCHANGED pvars
    /\ UNCHANGED mvars
    /\ UNCHANGED dvars

\* pdfToImages returns; images.forEach(({ page, blob }) => saveAs(blob, name)).
SaveImages ==
    /\ npc = "pages"
    /\ Len(pageImages) = numPages
    /\ savedFiles' = [k \in 1..Len(pageImages) |->
                         [name |-> pageFileName(nameImpl, fileName, pageImages[k].page),
                          content |-> pageImages[k].blob]]
    /\ npc' = "done"
    /\ UNCHANGED <<nameImpl, nameOp, fileName, numPages, pageImages>>
    /\ UNCHANGED uvars
    /\ UNCHANGED pvars
    /\ UNCHANGED mvars
    /\ UNCHANGED dvars

NamesNext ==
    \/ SaveConverted
    \/ GetDocument
    \/ RenderPage
    \/ RenderFails
    \/ SaveImages

SpecNames == NamesInit /\ [][NamesNext]_vars

(***************************************************************************)
(* mergePdfs(files), the same in App.jsx and in part_000.  An input file   *)
(* is given by its number of pages; a page of the merged document is the   *)
(* input it was copied from (1-based position in files) and its index in   *)
(* that input.                                                             *)
(***************************************************************************)
MergeArguments ==
    UNION {[1..n -> 1..MaxPages] : n \in 2..MaxInputs}

\* pdf.getPageIndices(), with the indices from the last page to the first.
getPageIndices_backwards(pageCount) == [k \in 1..pageCount |-> pageCount - k]

\* pdf.getPageIndices(): 0 .. pageCount - 1 in order.
getPageIndices(pageCount) == [k \in 1..pageCount |-> k - 1]

\* mergedPdf.copyPages(pdf, indices): the pages of input number doc at the
\* given indices, in the order of the indices.
copyPages(doc, indices) ==
    [k \in 1..Len(indices) |-> [doc |-> doc, page |-> indices[k]]]

\* The number of inputs the loop has gone through: each adds one page or
\* more, so it is the input of the last page added.
loaded == IF mergedPdf = <<>> THEN 0 ELSE mergedPdf[Len(mergedPdf)].doc

MergeInit ==
    /\ AppIdle
    /\ ParseIdle
    /\ NamesIdle
    /\ DragIdle
    /\ mergeInputs \in MergeArguments
    /\ mergedPdf = <<>>
    /\ mpc = "create"

\* const mergedPdf = await PDFDocument.create()
CreateMerged ==
    /\ mpc = "create"
    /\ mpc' = "loop"
    /\ UNCHANGED <<mergeInputs, mergedPdf>>
    /\ UNCHANGED uvars
    /\ UNCHANGED pvars
    /\ UNCHANGED nvars
    /\ UNCHANGED dvars

\* One turn of for (const file of files): load, copyPages of every page
\* index, addPage of each copied page.
MergeNextFile ==
    /\ mpc = "loop"
    /\ loaded < Len(mergeInputs)
    /\ LET doc         == loaded + 1
           copiedPages == copyPages(doc, getPageIndices(mergeInputs[doc]))
       IN  mergedPdf' = mergedPdf \o copiedPages
    /\ UNCHANGED <<mergeInputs, mpc>>
    /\ UNCHANGED uvars
    /\ UNCHANGED pvars
    /\ UNCHANGED nvars
    /\ UNCHANGED dvars

\* arrayBuffer, load or copyPages rejects: mergePdfs throws.
MergeLoadFails ==
    /\ mpc = "loop"
    /\ loaded < Len(mergeInputs)
    /\ mpc' = "failed"
    /\ UNCHANGED <<mergeInputs, mergedPdf>>
    /\ UNCHANGED uvars
    /\ UNCHANGED pvars
    /\ UNCHANGED nvars
    /\ UNCHANGED dvars

\* return await mergedPdf.save()
SaveMerged ==
    /\ mpc = "loop"
    /\ loaded = Len(mergeInputs)
    /\ mpc' = "saved"
    /\ UNCHANGED <<mergeInputs, mergedPdf>>
    /\ UNCHANGED uvars
    /\ UNCHANGED pvars
    /\ UNCHANGED nvars
    /\ UNCHANGED dvars

MergeNext ==
    \/ CreateMerged
    \/ MergeNextFile
    \/ MergeLoadFails
    \/ SaveMerged

SpecMerge == MergeInit /\ [][MergeNext]_vars

(***************************************************************************)
(* The drop zones: the upload area of each app, the widget of              *)
(* HoverDropWidget.jsx, and HoverDropWidget and FileUpload of part_000,    *)
(* which share useDragCounter.  The browser fires dragenter and dragleave  *)
(* for the zone and for each element inside it, in any number.             *)
(***************************************************************************)
Zones == {"App", "Widget", "Shadcn", "Radio", "PartWidget", "FileUpload"}

\* The zones that use useDragCounter.
CountingZones == {"PartWidget", "FileUpload"}

\* The app whose onFiles the zone calls.
hostOf(z) ==
    CASE z \in {"App", "Widget"} -> "App"
      [] z = "Shadcn" -> "Shadcn"
      [] z = "Radio" -> "Radio"
      [] z \in {"PartWidget", "FileUpload"} -> "Part"

DragInit ==
    /\ zone \in Zones
    /\ variant = hostOf(zone)
    /\ files = <<>>
    /\ selected = <<>>
    /\ isDropdownOpen = FALSE
    /\ jobs = EmptyBag
    /\ picked = <<>>
    /\ ParseIdle
    /\ NamesIdle
    /\ MergeIdle
    /\ over = FALSE
    /\ counter = 0
    /\ droppedFiles = <<>>

\* handleDragEnter: setIsDragging(true);
\* onDragEnter of useDragCounter: counter.current += 1; setOver(true)
DragEnter ==
    /\ IF zone \in CountingZones
       THEN /\ counter < MaxDepth
            /\ counter' = counter + 1
       ELSE counter' = counter
    /\ over' = TRUE
    /\ UNCHANGED <<zone, droppedFiles>>
    /\ UNCHANGED uvars
    /\ UNCHANGED pvars
    /\ UNCHANGED nvars
    /\ UNCHANGED mvars

\* handleDragLeave: setIsDragging(false);
\* onDragLeave of useDragCounter: counter.current -= 1;
\* if (counter.current <= 0) { setOver(false); counter.current = 0 }
DragLeave ==
    /\ IF zone \in CountingZones
       THEN IF counter - 1 <= 0
            THEN over' = FALSE /\ counter' = 0
            ELSE over' = over /\ counter' = counter - 1
       ELSE over' = FALSE /\ counter' = counter
    /\ UNCHANGED <<zone, droppedFiles>>
    /\ UNCHANGED uvars
    /\ UNCHANGED pvars
    /\ UNCHANGED nvars
    /\ UNCHANGED mvars

\* The drop handler of the zone, given the files of the drag:
\* handleDrop of App.jsx, tailwind.config.js and HoverDropWidget.jsx clear the
\* indicator and call onFiles when there is a file; handleDrop of part_000
\* clears it and calls onFiles; onDrop of FileUpload calls onFiles and
\* reset(); onDrop of HoverDropWidget in part_000 calls onFiles only.
dropFiles(newFiles) ==
    /\ IF zone \in {"App", "Radio", "Widget"} /\ Len(newFiles) = 0
       THEN /\ UNCHANGED uvars
            /\ UNCHANGED pvars
            /\ UNCHANGED nvars
            /\ UNCHANGED mvars
       ELSE onFiles(newFiles)
    /\ over' = IF zone = "PartWidget" THEN over ELSE FALSE
    /\ counter' = IF zone = "FileUpload" THEN 0 ELSE counter
    /\ droppedFiles' = IF zone = "Widget" /\ Len(newFiles) > 0
                       THEN droppedFiles \o newFiles
                       ELSE droppedFiles
    /\ UNCHANGED zone

Drop == \E newFiles \in Batches : dropFiles(newFiles)

DragNext ==
    \/ DragEnter
    \/ DragLeave
    \/ Drop

SpecDrag == DragInit /\ [][DragNext]_vars

(***************************************************************************)
(* What a spec string means, read from the grammar of the exclusion spec:  *)
(* used only to state the properties below.                                *)
(***************************************************************************)
allDigits(t) == t # <<>> /\ \A i \in 1..Len(t) : isDigit(t[i])

\* A token that is one integer, white space around it allowed.
isPageToken(tok) == allDigits(trim(tok))

\* A token that is two integers separated by one dash.
isRangeToken(tok) ==
    LET ends == split(trim(tok), "-")
    IN  Len(ends) = 2 /\ allDigits(trim(ends[1])) /\ allDigits(trim(ends[2]))

\* The 1-based page numbers a well-formed token names; a range names the
\* pages between its endpoints whichever endpoint comes first.
tokenNames(tok) ==
    IF isRangeToken(tok)
    THEN LET ends == split(trim(tok), "-")
             a    == decimal(trim(ends[1]))
             b    == decimal(trim(ends[2]))
         IN  IF a <= b THEN a..b ELSE b..a
    ELSE {decimal(trim(tok))}

wellFormed(spec) ==
    LET toks == split(spec, ",")
    IN  \A k \in 1..Len(toks) :
            /\ isPageToken(toks[k]) \/ isRangeToken(toks[k])
            /\ \A n \in tokenNames(toks[k]) : n >= 1

namedIndices(spec, total) ==
    LET toks == split(spec, ",")
    IN  {n - 1 : n \in {m \in UNION {tokenNames(toks[k]) : k \in 1..Len(toks)} :
                            1 <= m /\ m <= total}}

\* Some non-empty token is neither an integer nor a range of two integers.
hasMalformedToken(spec) ==
    LET toks == split(spec, ",")
    IN  \E k \in 1..Len(toks) :
            /\ trim(toks[k]) # <<>>
            /\ ~isPageToken(toks[k])
            /\ ~isRangeToken(toks[k])

\* A single range token "a-b" with a > b, and the same range written "b-a".
isDescendingRange(spec) ==
    LET ends == split(spec, "-")
    IN  /\ Len(ends) = 2 /\ allDigits(ends[1]) /\ allDigits(ends[2])
        /\ decimal(ends[1]) > decimal(ends[2])

ascendingForm(spec) ==
    LET ends == split(spec, "-")
    IN  ends[2] \o <<"-">> \o ends[1]

emptyLike(spec) == \A i \in 1..Len(spec) : spec[i] \in {" ", ","}

allPages(total) == [i \in 1..total |-> i - 1]

parsed == pc = "done" /\ savedDoc

(***************************************************************************)
(* C1: whatever the spec string, every index the parsing puts into the     *)
(* exclusion set is in 0..totalPages-1; page numbers outside               *)
(* 1..totalPages are dropped and the operation does not end in an error    *)
(* because of them.                                                        *)
(***************************************************************************)
C1_IndicesInRange ==
    parsed => /\ excluded \subseteq 0..(totalPages - 1)
              /\ err = "none"

\* "0-2,2" on a one-page document: 0 and 2 are dropped, page 1 is excluded.
C1_Witness ==
    /\ parsed
    /\ excludeSpec = <<"0", "-", "2", ",", "2">>
    /\ totalPages = 1
    /\ excluded = {0}

(***************************************************************************)
(* C2: when the exclusion set holds every page of the document the         *)
(* operation fails with a validation error and saves no document.          *)
(***************************************************************************)
C2_ExcludeAllRejected ==
    (pc = "done" /\ Cardinality(excluded) = totalPages)
        => (err = "validation" /\ ~savedDoc)

(***************************************************************************)
(* C3: a range token written with descending endpoints, "a-b" with a > b,  *)
(* excludes exactly the pages that "b-a" excludes.                         *)
(***************************************************************************)
C3_DescendingRangeSameAsAscending ==
    (parsed /\ isDescendingRange(excludeSpec))
        => excluded = parseExclusions(impl, ascendingForm(excludeSpec), totalPages)

(***************************************************************************)
(* C4: a spec with a non-empty token that is not an integer, or a range    *)
(* with an endpoint that is not an integer, makes the operation fail with  *)
(* a validation error and save nothing.                                    *)
(***************************************************************************)
C4_MalformedTokenRejected ==
    (pc = "done" /\ hasMalformedToken(excludeSpec) /\ err # "library")
        => (err = "validation" /\ ~savedDoc)

(***************************************************************************)
(* C5: for every well-formed spec the exclusion set is exactly the set of  *)
(* n-1 for the page numbers n in 1..totalPages that some token names.      *)
(***************************************************************************)
C5_ExclusionSetExact ==
    (parsed /\ wellFormed(excludeSpec))
        => excluded = namedIndices(excludeSpec, totalPages)

(***************************************************************************)
(* C6: a spec that is empty, or made only of white space and commas, is    *)
(* valid: parsing it yields the empty set, no error is raised, and every   *)
(* page of the document is kept.                                           *)
(***************************************************************************)
C6_EmptySpecKeepsEveryPage ==
    emptyLike(excludeSpec) =>
        /\ pagesToExclude(excludeSpec, totalPages) = {}
        /\ exclude(excludeSpec, totalPages) = {}
        /\ (pc = "done" /\ err # "library") =>
               /\ err = "none"
               /\ excluded = {}
               /\ savedDoc => outPages = allPages(totalPages)

\* " , " on a two-page document: the saved document has both pages.
C6_Witness ==
    /\ parsed
    /\ excludeSpec = <<" ", ",", " ">>
    /\ totalPages = 2
    /\ outPages = <<0, 1>>

(***************************************************************************)
(* Helpers to state the properties of the queue, the selection and the     *)
(* handlers.                                                               *)
(***************************************************************************)
selectionSet(sel) == {sel[k] : k \in 1..Len(sel)}

\* The selection the removal of row i must leave: i dropped, every index
\* above i one lower, every index below i as it was.
renumbered(S, i) == {IF j > i THEN j - 1 ELSE j : j \in S \ {i}}

pickedIndices == {i \in 0..(Len(files) - 1) : picked[i + 1]}

pdfPositions(fs) == {p \in 0..(Len(fs) - 1) : isPdf(fs[p + 1])}

selectedPdfs(fs, sel) ==
    {k \in 1..Len(sel) : sel[k] < Len(fs) /\ isPdf(fs[sel[k] + 1])}

positions(inputs) == [k \in 1..Len(inputs) |-> inputs[k].pos]

increasing(seq) == \A a, b \in 1..Len(seq) : a < b => seq[a] < seq[b]

\* The job a step has just started.
newJob == CHOOSE job \in BagToSet(jobs') : CopiesIn(job, jobs') > CopiesIn(job, jobs)

noLibraryNoSave(job) == job.st = "alert" /\ job.n = 0 /\ job.saved = 0

\* Merge as the claim C9 has it: the PDFs of the whole queue, in queue
\* order, dispatched iff there are two or more and something is selected.
mergesWholeQueue(r) ==
    /\ (r.st = "running") <=>
           (Cardinality(pdfPositions(files)) >= 2 /\ selected # <<>>)
    /\ r.st = "running" =>
           /\ selectionSet(positions(r.inputs)) = pdfPositions(files)
           /\ increasing(positions(r.inputs))
           /\ newJob.n = Cardinality(pdfPositions(files))
    /\ r.st # "running" => noLibraryNoSave(newJob)

\* Merge of the selected PDFs, in the order they were selected, dispatched
\* iff two or more PDFs are selected.
mergesSelection(r) ==
    /\ (r.st = "running") <=> (Cardinality(selectedPdfs(files, selected)) >= 2)
    /\ r.st = "running" =>
           /\ positions(r.inputs) =
                  [k \in 1..Len(r.inputs) |->
                      SelectSeq(selected, LAMBDA i : i \in pdfPositions(files))[k]]
           /\ newJob.n = Cardinality(selectedPdfs(files, selected))
    /\ r.st # "running" => noLibraryNoSave(newJob)

(***************************************************************************)
(* C7: removing the queue entry at index i updates the selection in the    *)
(* same step: every selected j > i becomes j-1, i itself is dropped, every *)
(* selected j < i stays.                                                   *)
(***************************************************************************)
C7_RemoveRenumbersSelection ==
    [][\A idx \in 0..(MaxFiles - 1) :
          removeFile(idx) =>
              selectionSet(selected') = renumbered(selectionSet(selected), idx)]_vars

(***************************************************************************)
(* C8: after any sequence of add, select/toggle, remove and clear, every   *)
(* selected index is a position of the queue and the selected indices      *)
(* denote exactly the files the selection was set to hold.                 *)
(***************************************************************************)
C8_SelectionValidAndSameFiles ==
    /\ \A k \in 1..Len(selected) : selected[k] \in 0..(Len(files) - 1)
    /\ selectionSet(selected) = pickedIndices

(***************************************************************************)
(* C9, as claimed: in every variant merge takes the PDFs of the whole      *)
(* queue, in queue order and whatever is selected, and is dispatched iff   *)
(* there are at least two of them (and the selection is not empty);        *)
(* otherwise it alerts, calls no library and saves nothing.                *)
(***************************************************************************)
C9_MergeTakesWholeQueue ==
    [][/\ handleAction("merge_pdfs") =>
              mergesWholeQueue(appResolve("merge_pdfs", files, selected, TRUE))
       /\ conversionOption("merge_pdfs") =>
              mergesWholeQueue(partResolve("merge_pdfs", files, selected, TRUE))]_vars

(***************************************************************************)
(* C9, amended: handleAction of App.jsx merges the PDFs of the whole queue *)
(* as claimed; merge of ConversionOptions (part_000) takes the selected    *)
(* PDFs, in selection order, and is dispatched iff at least two PDFs are   *)
(* selected.  A merge that is not dispatched alerts, calls no library and  *)
(* saves nothing.                                                          *)
(***************************************************************************)
C9_MergeInputsByVariant ==
    [][/\ handleAction("merge_pdfs") =>
              mergesWholeQueue(appResolve("merge_pdfs", files, selected, TRUE))
       /\ conversionOption("merge_pdfs") =>
              mergesSelection(partResolve("merge_pdfs", files, selected, TRUE))]_vars

\* App.jsx: two PDFs queued, one of them selected, and the merge of both runs.
C9_Witness ==
    /\ variant = "App"
    /\ Len(files) = 2
    /\ pdfPositions(files) = {0, 1}
    /\ Len(selected) = 1
    /\ \E job \in BagToSet(jobs) :
           job.op = "merge_pdfs" /\ job.st = "running" /\ job.n = 2

(***************************************************************************)
(* C10: PDF-to-images and exclude-pages are dispatched only when exactly   *)
(* one selected file is a PDF; with no or with several selected PDFs the   *)
(* handler alerts a selection error, calls no library and saves nothing.   *)
(***************************************************************************)
C10_ExactlyOnePdf ==
    [][\A action \in {"pdf_to_jpeg", "exclude_pages"} :
          (handleAction(action) \/ conversionOption(action)) =>
              /\ newJob.op = action
              /\ newJob.st = "running" =>
                     Cardinality(selectedPdfs(files, selected)) = 1
              /\ Cardinality(selectedPdfs(files, selected)) # 1 =>
                     /\ noLibraryNoSave(newJob)
                     /\ newJob.msg # "An error occurred"]_vars

\* part_000: two PDFs selected, and PDF-to-images has just been refused.
C10_Witness ==
    /\ variant = "Part"
    /\ Cardinality(selectedPdfs(files, selected)) = 2
    /\ \E job \in BagToSet(jobs) :
           /\ job.op = "pdf_to_jpeg"
           /\ job.st = "alert"
           /\ job.msg = "Select exactly one PDF to convert to images"

selectedImages(fs, sel) ==
    {k \in 1..Len(sel) : sel[k] < Len(fs) /\ fs[sel[k] + 1].type[1] = "image"}

somethingSelected(fs, sel) == \E k \in 1..Len(sel) : sel[k] < Len(fs)

(***************************************************************************)
(* C11: conversion to PNG or to JPEG with a non-empty selection that holds *)
(* no image is rejected with a selection error shown to the user; it never *)
(* ends silently with no output and no message.                            *)
(***************************************************************************)
C11_NoImagesRejected ==
    [][\A action \in {"to_png", "to_jpeg"} :
          /\ handleAction(action) \/ conversionOption(action)
          /\ somethingSelected(files, selected)
          /\ selectedImages(files, selected) = {}
          => newJob.st = "alert" /\ newJob.msg # ""]_vars

\* The one message of the source that reports an empty selection.
nothingSelectedMsg == "Please select a file first!"

\* The messages of the eligibility checks of ConversionOptions.
eligibilityMsg(action) ==
    CASE action \in {"to_png", "to_jpeg"} -> "Select PNG or JPEG images to convert"
      [] action = "images_to_pdf" -> "Select images to convert to PDF"
      [] action = "pdf_to_jpeg" -> "Select exactly one PDF to convert to images"
      [] action = "merge_pdfs" -> "Select at least two PDFs to merge"
      [] action = "exclude_pages" -> "Select exactly one PDF to split/exclude pages"

(***************************************************************************)
(* C12, as claimed: every operation, merge included, invoked with an empty *)
(* selection reports "nothing selected" before any check of its own, calls *)
(* no library and saves nothing, whatever the queue holds.                 *)
(***************************************************************************)
C12_EmptySelectionRejectedFirst ==
    [][\A action \in Actions :
          /\ selected = <<>>
          /\ handleAction(action) \/ conversionOption(action)
          => noLibraryNoSave(newJob) /\ newJob.msg = nothingSelectedMsg]_vars

(***************************************************************************)
(* C12, amended: with an empty selection every operation, merge included,  *)
(* alerts, calls no library and saves nothing, whatever the queue holds.   *)
(* handleAction of App.jsx reports "Please select a file first!" before    *)
(* any check of the operation; ConversionOptions of part_000 has no check  *)
(* of its own for the empty selection and reports the selection error of   *)
(* the operation's eligibility check.                                      *)
(***************************************************************************)
C12_EmptySelectionRejected ==
    [][\A action \in Actions :
          /\ (selected = <<>> /\ handleAction(action)) =>
                noLibraryNoSave(newJob) /\ newJob.msg = nothingSelectedMsg
          /\ (selected = <<>> /\ conversionOption(action)) =>
                noLibraryNoSave(newJob) /\ newJob.msg = eligibilityMsg(action)]_vars

\* App.jsx: two PDFs queued, nothing selected, and merge has been refused.
C12_Witness ==
    /\ variant = "App"
    /\ selected = <<>>
    /\ pdfPositions(files) = {0, 1}
    /\ \E job \in BagToSet(jobs) :
           job.op = "merge_pdfs" /\ job.st = "alert" /\ job.msg = nothingSelectedMsg

\* A step of a conversion handler: its start, the resolution or rejection of
\* a library call it awaits, or its end.
handlerStep ==
    \/ HandleAction
    \/ ConversionOption
    \/ LibraryResolves
    \/ LibraryRejects
    \/ JobEnds

(***************************************************************************)
(* C13: every invocation of a conversion operation, whether it succeeds,   *)
(* is rejected with an error, or fails inside a library, leaves the file   *)
(* queue and the selection exactly as they were.                           *)
(***************************************************************************)
C13_HandlersKeepQueueAndSelection ==
    [][handlerStep => files' = files /\ selected' = selected]_vars

\* App.jsx: a library call of a job has failed and the alert of the catch is
\* open, with a file still selected.
C13_Witness ==
    /\ variant = "App"
    /\ selected # <<>>
    /\ \E job \in BagToSet(jobs) :
           job.st = "alert" /\ job.msg = "An error occurred"

\* A job one of whose library calls has failed.
libraryFailed(job) ==
    \/ job.st = "failed"
    \/ job.st = "alert" /\ job.msg = "An error occurred"

(***************************************************************************)
(* C14: when a library call fails at any point of a job, no output of that *)
(* job has been saved: a job saves all of its outputs or none.             *)
(***************************************************************************)
C14_FailedJobSavedNothing ==
    \A job \in BagToSet(jobs) : libraryFailed(job) => job.saved = 0

\* The three classes of a file, read from its media type alone.
classOf(type) ==
    IF type[1] = "image" THEN "image"
    ELSE IF type = <<"application", "pdf">> THEN "pdf"
    ELSE "unsupported"

selectedOfClass(fs, sel, class) ==
    {k \in 1..Len(sel) : sel[k] < Len(fs) /\ classOf(fs[sel[k] + 1].type) = class}

queuedOfClass(fs, class) ==
    {p \in 0..(Len(fs) - 1) : classOf(fs[p + 1].type) = class}

\* png and jpeg, the only images ConversionOptions takes.
selectedPngJpeg(fs, sel) ==
    {k \in 1..Len(sel) :
        /\ sel[k] < Len(fs)
        /\ fs[sel[k] + 1].type \in {<<"image", "png">>, <<"image", "jpeg">>}}

ImageActions == {"to_png", "to_jpeg", "images_to_pdf"}

\* The PDF operations take files of class "pdf" and no other.
pdfByType(r, action) ==
    (action \in {"pdf_to_jpeg", "exclude_pages", "merge_pdfs"} /\ r.st = "running") =>
        \A k \in 1..Len(r.inputs) : classOf(r.inputs[k].type) = "pdf"

(***************************************************************************)
(* C15, as claimed: in every variant a file counts as an image for the     *)
(* image operations iff its media type starts with "image/", as a PDF iff  *)
(* its media type is "application/pdf", and as unsupported otherwise: the  *)
(* inputs of an image operation are exactly the selected files of class    *)
(* image, the inputs of a PDF operation are of class pdf.                  *)
(***************************************************************************)
C15_ClassifiedByMediaType ==
    [][\A action \in Actions :
          (handleAction(action) \/ conversionOption(action)) =>
              /\ action \in ImageActions =>
                     newJob.n = Cardinality(selectedOfClass(files, selected, "image"))
              /\ handleAction(action) =>
                     pdfByType(appResolve(action, files, selected, TRUE), action)
              /\ conversionOption(action) =>
                     pdfByType(partResolve(action, files, selected, TRUE), action)]_vars

(***************************************************************************)
(* C15, amended: eligibility is decided by the media type alone.  A file   *)
(* counts as a PDF iff its media type is "application/pdf".  For the image *)
(* operations of App.jsx it counts as an image iff its media type starts   *)
(* with "image/"; for those of ConversionOptions (part_000) iff its media  *)
(* type is "image/png" or "image/jpeg".  Any other file is unsupported.    *)
(***************************************************************************)
C15_ClassifiedByVariant ==
    [][\A action \in Actions :
          /\ handleAction(action) =>
              /\ action \in ImageActions =>
                     newJob.n = Cardinality(selectedOfClass(files, selected, "image"))
              /\ pdfByType(appResolve(action, files, selected, TRUE), action)
              /\ (action = "merge_pdfs" /\ newJob.st = "running") =>
                     newJob.n = Cardinality(queuedOfClass(files, "pdf"))
          /\ conversionOption(action) =>
              /\ action \in ImageActions =>
                     newJob.n = Cardinality(selectedPngJpeg(files, selected))
              /\ pdfByType(partResolve(action, files, selected, TRUE), action)
              /\ (action = "merge_pdfs" /\ newJob.st = "running") =>
                     newJob.n = Cardinality(selectedOfClass(files, selected, "pdf"))]_vars

\* App.jsx: a GIF is selected and its conversion to PNG runs.
C15_Witness ==
    /\ variant = "App"
    /\ Len(selected) = 1
    /\ selected[1] < Len(files)
    /\ files[selected[1] + 1].type = <<"image", "gif">>
    /\ \E job \in BagToSet(jobs) :
           job.op = "to_png" /\ job.st = "running" /\ job.n = 1

radioVariant == variant \in {"App", "Radio"}

checkboxVariant == variant \in {"Shadcn", "Part"}

noIndexTwice(sel) == \A a, b \in 1..Len(sel) : sel[a] = sel[b] => a = b

\* S with idx added when it is absent, removed when it is present.
flipped(S, idx) == IF idx \in S THEN S \ {idx} ELSE S \cup {idx}

(***************************************************************************)
(* C19: in the radio variants the selection holds at most one index after  *)
(* any sequence of add, select, remove and clear, and a select replaces it *)
(* with the singleton of the clicked index; in the checkbox variants a     *)
(* toggle adds or removes exactly the toggled index and the selection      *)
(* never holds the same index twice.                                       *)
(***************************************************************************)
C19_SelectionModePerVariant ==
    [][/\ radioVariant =>
              /\ Len(selected) <= 1 /\ Len(selected') <= 1
              /\ \A idx \in 0..(MaxFiles - 1) :
                     selectRadio(idx) => selected' = <<idx>>
       /\ checkboxVariant =>
              /\ noIndexTwice(selected) /\ noIndexTwice(selected')
              /\ \A idx \in 0..(MaxFiles - 1) :
                     toggleCheckbox(idx) =>
                         selectionSet(selected') = flipped(selectionSet(selected), idx)]_vars

\* part_000: two rows ticked, the second one first.
C19_Witness ==
    /\ checkboxVariant
    /\ selected = <<1, 0>>

(***************************************************************************)
(* C20: onFiles(new) leaves the queue equal to the old queue followed by   *)
(* new, in the order given: the entries already queued keep their indices  *)
(* and a file equal to a queued one is added again.                        *)
(***************************************************************************)
C20_AddAppends ==
    [][\A newFiles \in Batches :
          onFiles(newFiles) =>
              /\ Len(files') = Len(files) + Len(newFiles)
              /\ \A k \in 1..Len(files) : files'[k] = files[k]
              /\ \A k \in 1..Len(newFiles) : files'[Len(files) + k] = newFiles[k]]_vars

\* A file was added to a queue that already held an equal one.
C20_Witness ==
    /\ Len(files) >= 2
    /\ files[Len(files)] = files[Len(files) - 1]

\* The handler invocations suspended on a library call.
inFlight == {job \in BagToSet(jobs) : job.st = "running"}

(***************************************************************************)
(* C17: at most one conversion job is in flight at any time: while an      *)
(* invocation of handleAction is suspended on an awaited library call, the *)
(* UI lets no second action start.                                         *)
(***************************************************************************)
C17_SingleFlight ==
    /\ Cardinality(inFlight) <= 1
    /\ \A job \in inFlight : CopiesIn(job, jobs) = 1

(***************************************************************************)
(* What the output names are made of, read from the naming rules: used     *)
(* only to state the properties below.                                     *)
(***************************************************************************)
endsWith(name, suffix) ==
    /\ Len(suffix) <= Len(name)
    /\ SubSeq(name, Len(name) - Len(suffix) + 1, Len(name)) = suffix

\* The source name without its ".pdf".
withoutPdf(name) ==
    IF endsWith(name, dotPdf) THEN SubSeq(name, 1, Len(name) - 4) ELSE name

\* The source name with its extension removed: the extension is the last dot
\* and the characters after it, when there are any.
withoutExtension(name) ==
    LET dots == {i \in 1..Len(name) : name[i] = "."}
    IN  IF dots = {} THEN name
        ELSE LET last == CHOOSE i \in dots : \A j \in dots : j <= i
             IN  IF last = Len(name) THEN name ELSE SubSeq(name, 1, last - 1)

pagesSaved == npc = "done" /\ nameOp = "pdf_to_jpeg"

imageSaved == npc = "done" /\ nameOp \in {"to_png", "to_jpeg"}

\* N outputs, the k-th being the rendering of page k.
onePerPageInOrder ==
    /\ Len(savedFiles) = numPages
    /\ \A k \in 1..Len(savedFiles) : savedFiles[k].content = k

(***************************************************************************)
(* C16: PDF-to-images on a document of N pages saves exactly N outputs,    *)
(* one per page number 1..N, each used once, in increasing page order; the *)
(* output with page number k is the rendering of the k-th page and is      *)
(* named <source name without .pdf>-page-k.jpg.                            *)
(***************************************************************************)
C16_OneOutputPerPageNamedByPage ==
    pagesSaved =>
        /\ onePerPageInOrder
        /\ \A k \in 1..Len(savedFiles) :
               savedFiles[k].name =
                   withoutPdf(fileName) \o <<"-", "p", "a", "g", "e", "-">>
                       \o numberToString(k) \o dotJpg

(***************************************************************************)
(* C18: the output of an image format conversion is named by the source    *)
(* name with its extension removed, followed by ".png" or ".jpg", for      *)
(* every source name: with no extension, with several dots, or with an     *)
(* extension other than png, jpg, jpeg.                                    *)
(***************************************************************************)
C18_ConvertedNameReplacesExtension ==
    imageSaved =>
        /\ Len(savedFiles) = 1
        /\ savedFiles[1].name =
               withoutExtension(fileName) \o
                   (IF nameOp = "to_png" THEN dotPng ELSE dotJpg)

(***************************************************************************)
(* C21: in App.jsx, adding a non-empty batch to an empty queue sets the    *)
(* selection to exactly [0]; adding to a non-empty queue, or adding an     *)
(* empty batch, leaves the selection as it was; Clear All empties the      *)
(* queue and the selection in one step.                                    *)
(***************************************************************************)
C21_AddSelectsFirstClearEmpties ==
    [][variant = "App" =>
          /\ \A newFiles \in Batches :
                 onFiles(newFiles) =>
                     IF files = <<>> /\ newFiles # <<>>
                     THEN selected' = <<0>>
                     ELSE selected' = selected
          /\ ClearAll => files' = <<>> /\ selected' = <<>>]_vars

\* App.jsx: files were added to the empty queue, then more, and the first is
\* selected.
C21_Witness ==
    /\ variant = "App"
    /\ Len(files) = MaxFiles
    /\ selected = <<0>>
    /\ picked[1]

(***************************************************************************)
(* C22: the document exclude-pages produces holds exactly the source pages *)
(* whose zero-based index is not in the exclusion set, each once and in    *)
(* their original order; its page count is totalPages minus the size of    *)
(* the exclusion set.                                                      *)
(***************************************************************************)
C22_OutputIsComplementInOrder ==
    parsed =>
        /\ selectionSet(outPages) = (0..(totalPages - 1)) \ excluded
        /\ noIndexTwice(outPages)
        /\ increasing(outPages)
        /\ Len(outPages) = totalPages - Cardinality(excluded)

\* "2" on three pages: the second page is dropped, the first and the third
\* are saved in that order.
C22_Witness ==
    /\ parsed
    /\ totalPages = 3
    /\ excluded = {1}
    /\ outPages = <<0, 2>>

\* The number of pages of the inputs before input number doc.
RECURSIVE pagesBefore(_, _)
pagesBefore(counts, doc) ==
    IF doc <= 1 THEN 0 ELSE counts[doc - 1] + pagesBefore(counts, doc - 1)

(***************************************************************************)
(* C23: the merged document is the concatenation of the pages of the input *)
(* PDFs: all pages of the first input in their order, then all pages of    *)
(* the second, and so on, none dropped, duplicated or reordered; its page  *)
(* count is the sum of the page counts of the inputs.                      *)
(***************************************************************************)
C23_MergedIsConcatenation ==
    mpc = "saved" =>
        /\ Len(mergedPdf) = pagesBefore(mergeInputs, Len(mergeInputs) + 1)
        /\ \A doc \in 1..Len(mergeInputs) :
               \A page \in 0..(mergeInputs[doc] - 1) :
                   mergedPdf[pagesBefore(mergeInputs, doc) + page + 1] =
                       [doc |-> doc, page |-> page]

\* A PDF of two pages merged with a PDF of one page.
C23_Witness ==
    /\ mpc = "saved"
    /\ mergeInputs = <<2, 1>>
    /\ Len(mergedPdf) = 3
    /\ mergedPdf[3] = [doc |-> 2, page |-> 0]

(***************************************************************************)
(* C24: for every drop zone, after any sequence of dragenter and dragleave *)
(* events, once a drop has been handled the drag-over indicator of the     *)
(* zone is false and, where a nesting counter is used, the counter is back *)
(* to 0; the counter is never negative.                                    *)
(***************************************************************************)
C24_DropClearsIndicator ==
    [][/\ counter >= 0 /\ counter' >= 0
       /\ Drop => over' = FALSE /\ counter' = 0]_vars

=============================================================================
